---------------------------- MODULE Spec2Model ----------------------------
(***************************************************************************)
(* Model of the trip planner worker (src/src/lib.rs, src/src/db.rs).       *)
(*                                                                         *)
(* Requests run as tasks that yield at every external call (the text        *)
(* generation backend, the TripSession durable object, the D1 database).   *)
(* Each external call is one atomic step of the task that makes it; tasks  *)
(* interleave between steps.  The durable object's storage, and the three  *)
(* D1 tables trips, plans and messages are the shared state.               *)
(***************************************************************************)
EXTENDS Integers, Sequences, FiniteSets, TLC

(* ------------------------------ bounds -------------------------------- *)

\* number of request tasks that can be in flight at the same time
NumProcs == 2
\* number of trip identifiers (fresh ones handed out by Uuid::new_v4, and
\* the ones a chat or read request can address)
MaxTrips == 2
\* rows the messages table can hold before the model stops appending
MaxMsgs == 4
\* largest value of the wall clock (Date::now(), one-second resolution)
MaxClock == 1
\* number of requests the worker takes
MaxRequests == 3

Procs == 1..NumProcs
TripIds == 1..MaxTrips

(* ------------------------------ inputs -------------------------------- *)

\* Option<T>: None is <<>>, Some(x) is <<x>>
None == <<>>
Some(x) == <<x>>
IsSome(o) == o /= <<>>
Unwrap(o) == o[1]

\* destination form field: absent, empty, or a place
Destinations == {None, Some(""), Some("Paris")}
\* days form field: absent, or a text (a sequence of characters)
DaysTexts == {<<>>, <<"0">>, <<"2">>, <<"x">>, <<"+", "2">>}
DaysFields == {None} \cup {Some(s) : s \in DaysTexts}
\* message form field: absent, empty, or a text
MessageFields == {None, Some(""), Some("hi"), Some("yo")}
\* texts the generation backend can produce
PlanTexts == {"planA", "planB"}
\* the JSON bodies POST /init of a durable object can get: two TripInit
\* values that differ in every field, or a body that is no TripInit
TripInits ==
    {[destination |-> "Paris", days |-> 2, response |-> "planA"],
     [destination |-> "Rome", days |-> 3, response |-> "planB"]}
InitBodies == {None} \cup {Some(init) : init \in TripInits}
ReplyTexts == {"reply"}

(* --------------------------- pure functions --------------------------- *)

DigitChars == {"0", "1", "2", "3", "4", "5", "6", "7", "8", "9"}

DigitVal(c) ==
    CASE c = "0" -> 0 [] c = "1" -> 1 [] c = "2" -> 2 [] c = "3" -> 3
      [] c = "4" -> 4 [] c = "5" -> 5 [] c = "6" -> 6 [] c = "7" -> 7
      [] c = "8" -> 8 [] c = "9" -> 9

RECURSIVE DigitsValue(_, _)
DigitsValue(s, acc) ==
    IF s = <<>> THEN acc ELSE DigitsValue(Tail(s), acc * 10 + DigitVal(Head(s)))

\* (mutant: a text that is no number reads as 0)
ParseU32Lenient(s) ==
    LET digits == IF s /= <<>> /\ Head(s) = "+" THEN Tail(s) ELSE s
    IN  IF digits = <<>> \/ \E i \in 1..Len(digits) : digits[i] \notin DigitChars
        THEN Some(0)
        ELSE Some(DigitsValue(digits, 0))

\* days_str.parse::<u32>(): an optional leading "+", then one or more decimal
\* digits; no sign "-", no blanks, no empty text.  None is the parse error.
\* (The texts of DaysTexts are too short to overflow 32 bits.)
ParseU32(s) ==
    LET digits == IF s /= <<>> /\ Head(s) = "+" THEN Tail(s) ELSE s
    IN  IF digits = <<>> \/ \E i \in 1..Len(digits) : digits[i] \notin DigitChars
        THEN None
        ELSE Some(DigitsValue(digits, 0))

\* Result values of a handler: an Err(..) propagated by `?`, or a Response
Err(msg) == [kind |-> "Err", status |-> 0, text |-> msg, data |-> <<>>]
Resp(status, text, data) ==
    [kind |-> "Response", status |-> status, text |-> text, data |-> data]
NoResult == [kind |-> "None", status |-> 0, text |-> "", data |-> <<>>]


(* ------------------------------- state -------------------------------- *)

VARIABLES
    pc,        \* pc[p]: the await the task p is suspended at, or "idle"
    req,       \* req[p]: the request the task p serves
    loc,       \* loc[p]: the handler's local variables
    calls,     \* calls[p]: the external calls the task has made, in order
    base,      \* base[p]: the trip's message log when the chat task started,
               \* or when the history read made its check
    clean,     \* clean[p]: no other task appended to the trip's log since
    response,  \* the answer a handler has just returned (gone one step later);
               \* before: the storage a request to a durable object found
    actor,     \* actor[t]: storage of the TripSession durable object named t
    trips,     \* rows of the D1 table trips, in insertion order
    plans,     \* rows of the D1 table plans, in insertion order
    messages,  \* rows of the D1 table messages, in insertion order
    nextId,    \* number of identifiers Uuid::new_v4 has handed out, plus one
    now,       \* the wall clock read by Date::now()
    served     \* number of requests the worker has taken

vars == <<pc, req, loc, calls, base, clean, response,
          actor, trips, plans, messages, nextId, now, served>>

storeVars == <<actor, trips, plans, messages>>

NoReq == [kind |-> "none", form |-> TRUE, destination |-> None, days |-> None,
          message |-> None, trip_id |-> 0, body |-> None]
NoLoc == [trip_id |-> 0, destination |-> "", days |-> 0, response |-> None,
          trip |-> NoResult, bootstrap |-> FALSE, hist |-> <<>>, resp |-> ""]
NoResponse == [req |-> NoReq, trip_id |-> 0, result |-> NoResult,
               calls |-> <<>>, base |-> <<>>, clean |-> TRUE, before |-> None]

\* storage of a durable object that was never written
EmptyStorage == [destination |-> None, days |-> None, response |-> None]

Init ==
    /\ pc = [p \in Procs |-> "idle"]
    /\ req = [p \in Procs |-> NoReq]
    /\ loc = [p \in Procs |-> NoLoc]
    /\ calls = [p \in Procs |-> <<>>]
    /\ base = [p \in Procs |-> <<>>]
    /\ clean = [p \in Procs |-> TRUE]
    /\ response = NoResponse
    /\ actor = [t \in TripIds |-> EmptyStorage]
    /\ trips = <<>>
    /\ plans = <<>>
    /\ messages = <<>>
    /\ nextId = 1
    /\ now = 0
    /\ served = 0

\* an idle task takes the next request
Accept(p) ==
    /\ pc[p] = "idle"
    /\ served < MaxRequests
    /\ served' = served + 1

Call(op, ok) == [op |-> op, ok |-> ok]

\* The task p, serving request r with locals l, makes the external call c
\* and goes on to its next await.
Goto(p, label, r, l, c) ==
    /\ pc' = [pc EXCEPT ![p] = label]
    /\ req' = [req EXCEPT ![p] = r]
    /\ loc' = [loc EXCEPT ![p] = l]
    /\ calls' = [calls EXCEPT ![p] = calls[p] \o c]
    /\ response' = NoResponse

\* The handler of task p, serving request r for trip t, returns `result`
\* after the external calls c; the task is over.
Return(p, r, t, c, result) ==
    /\ pc' = [pc EXCEPT ![p] = "idle"]
    /\ req' = [req EXCEPT ![p] = NoReq]
    /\ loc' = [loc EXCEPT ![p] = NoLoc]
    /\ calls' = [calls EXCEPT ![p] = <<>>]
    /\ response' = [req |-> r, trip_id |-> t, result |-> result,
                    calls |-> calls[p] \o c,
                    base |-> base[p], clean |-> clean[p], before |-> None]

(* --------------------------- TripSession DO --------------------------- *)

\* (mutant: the put of days is missing)
StorageAfterInitNoDays(st, init, puts) ==
    [destination |-> IF puts >= 1 THEN Some(init.destination) ELSE st.destination,
     days        |-> st.days,
     response    |-> IF puts >= 3 THEN Some(init.response) ELSE st.response]

\* (mutant: a value already stored is kept)
StorageAfterInitKeepsOld(st, init, puts) ==
    [destination |-> IF IsSome(st.destination) THEN st.destination
                     ELSE IF puts >= 1 THEN Some(init.destination) ELSE None,
     days        |-> IF IsSome(st.days) THEN st.days
                     ELSE IF puts >= 2 THEN Some(init.days) ELSE None,
     response    |-> IF IsSome(st.response) THEN st.response
                     ELSE IF puts >= 3 THEN Some(init.response) ELSE None]

\* TripSession::fetch, POST /init: three storage puts in the order
\* destination, days, response; `puts` of them succeed before one fails
\* (3: none fails).
StorageAfterInit(st, init, puts) ==
    [destination |-> IF puts >= 1 THEN Some(init.destination) ELSE st.destination,
     days        |-> IF puts >= 2 THEN Some(init.days) ELSE st.days,
     response    |-> IF puts >= 3 THEN Some(init.response) ELSE st.response]

\* (mutant: a value that is not stored reads as its default)
ReadStorageDefaults(st) ==
    Resp(200, "json",
         Some([destination |-> IF IsSome(st.destination)
                               THEN Unwrap(st.destination) ELSE "",
               days |-> IF IsSome(st.days) THEN Unwrap(st.days) ELSE 0,
               response |-> IF IsSome(st.response)
                            THEN Unwrap(st.response) ELSE ""]))

\* TripSession::fetch, GET /: the triple when all three keys are present
ReadStorage(st) ==
    IF IsSome(st.destination) /\ IsSome(st.days) /\ IsSome(st.response)
    THEN Resp(200, "json",
              Some([destination |-> Unwrap(st.destination),
                    days |-> Unwrap(st.days),
                    response |-> Unwrap(st.response)]))
    ELSE Resp(404, "trip not initialized", None)

Initialized(t) == ReadStorage(actor[t]).status = 200

\* The answer of the durable object named t to the request r, which found
\* the storage `found`; the runtime delivers the requests of one object one
\* at a time, so the handler runs as one step.
Answer(r, t, result, found) ==
    /\ response' = [NoResponse EXCEPT !.req = r, !.trip_id = t,
                                      !.result = result, !.before = Some(found)]
    /\ UNCHANGED <<pc, req, loc, calls, base, clean>>

\* TripSession::fetch, POST /init, lines 509-516, sent to the object named t:
\* req.json(), then the three puts, then "initialized"
TripSessionInit(p) ==
    /\ Accept(p)
    /\ \E t \in TripIds, body \in InitBodies :
        LET r == [NoReq EXCEPT !.kind = "init", !.trip_id = t, !.body = body]
        IN  IF ~IsSome(body)
            THEN /\ Answer(r, t, Err("json failed"), actor[t])
                 /\ UNCHANGED actor
            ELSE \E puts \in 0..3 :
                    /\ actor' = [actor EXCEPT ![t] =
                                    StorageAfterInit(@, Unwrap(body), puts)]
                    /\ Answer(r, t,
                              IF puts = 3 THEN Resp(200, "initialized", None)
                              ELSE Err("storage put failed"),
                              actor[t])
    /\ UNCHANGED <<trips, plans, messages, nextId, now>>

\* TripSession::fetch, GET /, lines 518-533, sent to the object named t
TripSessionGet(p) ==
    /\ Accept(p)
    /\ \E t \in TripIds :
        LET r == [NoReq EXCEPT !.kind = "get", !.trip_id = t]
        IN  \/ Answer(r, t, ReadStorage(actor[t]), actor[t])
            \/ Answer(r, t, Err("storage get failed"), actor[t])
    /\ UNCHANGED <<storeVars, nextId, now>>

(* ------------------------------ D1 tables ----------------------------- *)

\* (mutant: the statement inserts nothing)
InsertTripNothing(rows, trip) == rows

\* db::create_trip: INSERT INTO trips (id, destination, days)
InsertTrip(rows, trip) == Append(rows, trip)

\* db::create_plan: INSERT INTO plans (trip_id, plan, input_text, updated_at)
InsertPlan(rows, trip_id, plan, input_text, timestamp) ==
    Append(rows, [trip_id |-> trip_id, plan |-> plan,
                  input_text |-> input_text, updated_at |-> timestamp])

\* (mutant: the new row goes in front of the others)
InsertMessagePrepend(rows, trip_id, message, messager_role, timestamp) ==
    <<[trip_id |-> trip_id, message |-> message,
       messager_role |-> messager_role, created_at |-> timestamp]>> \o rows

\* (mutant: every row is filed under the first trip)
InsertMessageFirstTrip(rows, trip_id, message, messager_role, timestamp) ==
    Append(rows, [trip_id |-> 1, message |-> message,
                  messager_role |-> messager_role,
                  created_at |-> timestamp])

\* (mutant: a row is inserted only for a trip that has a row already)
InsertMessageForKnownTrip(rows, trip_id, message, messager_role, timestamp) ==
    IF \E i \in 1..Len(rows) : rows[i].trip_id = trip_id
    THEN Append(rows, [trip_id |-> trip_id, message |-> message,
                       messager_role |-> messager_role,
                       created_at |-> timestamp])
    ELSE rows

\* (mutant: the new row replaces the trip's row of the same role)
InsertMessageReplacesRole(rows, trip_id, message, messager_role, timestamp) ==
    Append(SelectSeq(rows, LAMBDA r : ~(r.trip_id = trip_id
                                        /\ r.messager_role = messager_role)),
           [trip_id |-> trip_id, message |-> message,
            messager_role |-> messager_role, created_at |-> timestamp])

\* db::create_message: INSERT INTO messages (trip_id, message, messager_role,
\* created_at)
InsertMessage(rows, trip_id, message, messager_role, timestamp) ==
    Append(rows, [trip_id |-> trip_id, message |-> message,
                  messager_role |-> messager_role, created_at |-> timestamp])

RowsOf(rows, trip_id) == SelectSeq(rows, LAMBDA r : r.trip_id = trip_id)

\* (mutant: the check looks for a reply of the assistant)
CheckIfMessagesOfAssistant(rows, trip_id) ==
    \E i \in 1..Len(rows) :
        rows[i].trip_id = trip_id /\ rows[i].messager_role = "AI"

\* (mutant: the check finds a row whatever the table holds)
CheckIfMessagesAlways(rows, trip_id) == TRUE

\* db::check_if_messages: SELECT 1 FROM messages WHERE trip_id = ? LIMIT 1
CheckIfMessages(rows, trip_id) == RowsOf(rows, trip_id) /= <<>>

\* (mutant: the newest row of the trip is not read)
GetMessagesButLast(rows, trip_id) ==
    LET sel == RowsOf(rows, trip_id)
    IN  [i \in 1..(Len(sel) - 1) |->
            <<sel[i].message, sel[i].messager_role, sel[i].created_at>>]

\* (mutant: the rows come newest first)
GetMessagesNewestFirst(rows, trip_id) ==
    LET sel == RowsOf(rows, trip_id)
    IN  [i \in 1..Len(sel) |->
            <<sel[Len(sel) + 1 - i].message,
              sel[Len(sel) + 1 - i].messager_role,
              sel[Len(sel) + 1 - i].created_at>>]

\* db::get_messages: SELECT message, messager_role, created_at FROM messages
\* WHERE trip_id = ?, each row as a (message, role, created_at) tuple
GetMessages(rows, trip_id) ==
    LET sel == RowsOf(rows, trip_id)
    IN  [i \in 1..Len(sel) |->
            <<sel[i].message, sel[i].messager_role, sel[i].created_at>>]

TripRows(t) == SelectSeq(trips, LAMBDA r : r.id = t)
PlanRows(t) == RowsOf(plans, t)
Log(t) == GetMessages(messages, t)

\* Date::now(): the values the clock can show, never earlier than before
Clock == now..MaxClock

(* --------------------------- creation flow ---------------------------- *)

\* input, lines 262-269: the form fields and days_str.parse()
InputValidate(form, destination, days) ==
    IF ~form THEN Err("form_data failed")
    ELSE IF ~IsSome(destination) THEN Resp(400, "Missing field: destination", None)
    ELSE IF ~IsSome(days) THEN Resp(400, "Missing field: days", None)
    ELSE IF ~IsSome(ParseU32(Unwrap(days))) THEN Err("days must be a number")
    ELSE NoResult

\* The requests POST /input can get: a body that is no form, or a form with
\* or without each of the two fields.
InputRequest(d, n) ==
    [NoReq EXCEPT !.kind = "input", !.destination = d, !.days = n]
InputRequests ==
    {[NoReq EXCEPT !.kind = "input", !.form = FALSE]} \cup
    {InputRequest(d, n) : d \in Destinations, n \in DaysFields}
\* a few of them: one for each way validation ends, and two valid ones
FewInputRequests ==
    {[NoReq EXCEPT !.kind = "input", !.form = FALSE],
     InputRequest(None, Some(<<"2">>)), InputRequest(Some("Paris"), None),
     InputRequest(Some("Paris"), Some(<<"x">>)),
     InputRequest(Some("Paris"), Some(<<"2">>)),
     InputRequest(Some(""), Some(<<"0">>))}

\* (mutant: a failed generation goes on with an empty plan)
InputAfterCreatePlanIgnoresError(p, r, l, ok) ==
    Goto(p, "input_init", r,
         IF ok THEN l ELSE [l EXCEPT !.response = Some(<<"", <<>> >>)],
         <<Call("ai::create_plan", ok)>>)

\* what input does with the result of ai::create_plan, lines 274-276
\* (l: the locals, with the generated plan when ok)
InputAfterCreatePlan(p, r, l, ok) ==
    IF ok
    THEN Goto(p, "input_init", r, l, <<Call("ai::create_plan", TRUE)>>)
    ELSE Return(p, r, l.trip_id, <<Call("ai::create_plan", FALSE)>>,
                Err("ai::create_plan failed"))

\* (mutant: the identifier of the creation before is handed out again)
NewTripIdReused == IF nextId > 1 THEN nextId - 1 ELSE nextId

\* Uuid::new_v4(), line 270: an identifier no creation had before
NewTripId == nextId

\* input up to its first external call: validation, Uuid::new_v4(), then
\* ai::create_plan(&env, &destination, days), which gives the plan and the
\* input text it was generated from, or fails
InputBegin(p, requests) ==
    /\ Accept(p)
    /\ \E r \in requests :
        LET v == InputValidate(r.form, r.destination, r.days)
        IN  IF v /= NoResult
            THEN /\ Return(p, r, 0, <<>>, v)
                 /\ UNCHANGED nextId
            ELSE LET d == Unwrap(r.destination)
                     n == Unwrap(ParseU32(Unwrap(r.days)))
                     l == [NoLoc EXCEPT !.trip_id = NewTripId,
                                        !.destination = d, !.days = n]
                 IN  /\ nextId <= MaxTrips
                     /\ nextId' = nextId + 1
                     /\ \/ \E plan \in PlanTexts :
                            InputAfterCreatePlan(p, r,
                                [l EXCEPT !.response = Some(<<plan, <<d, n>> >>)],
                                TRUE)
                        \/ InputAfterCreatePlan(p, r, l, FALSE)
    /\ UNCHANGED <<base, clean, storeVars, now>>

\* (mutant: the payload carries one day more and no plan)
InitPayloadWithoutPlan(l) ==
    [destination |-> l.destination, days |-> l.days + 1, response |-> ""]

\* the TripInit payload sent to the durable object, lines 275-276
InitPayload(l) ==
    [destination |-> l.destination, days |-> l.days,
     response |-> Unwrap(l.response)[1]]

\* (mutant: the status of the answer is not looked at)
InputAfterInitNoStatusCheck(p, answer) ==
    LET c == <<Call("init", answer = "ok")>>
    IN  IF answer = "Err"
        THEN Return(p, req[p], loc[p].trip_id, c, Err("fetch failed"))
        ELSE Goto(p, "input_trip", req[p], loc[p], c)

\* what input does with the answer to POST /init, lines 287-291 (answer:
\* "ok", "Err" when the fetch fails, "status" when the durable object answers
\* with a status other than 200)
InputAfterInit(p, answer) ==
    LET c == <<Call("init", answer = "ok")>>
    IN  CASE answer = "ok" -> Goto(p, "input_trip", req[p], loc[p], c)
          [] answer = "Err" ->
                Return(p, req[p], loc[p].trip_id, c, Err("fetch failed"))
          [] answer = "status" ->
                Return(p, req[p], loc[p].trip_id, c,
                       Resp(500, "failed to initialize trip", None))

\* stub.fetch_with_request(POST https://trip-session/init), line 287
InputInit(p) ==
    /\ pc[p] = "input_init"
    /\ \E puts \in 0..3 :
        /\ actor' = [actor EXCEPT ![loc[p].trip_id] =
                        StorageAfterInit(@, InitPayload(loc[p]), puts)]
        /\ \E answer \in (IF puts = 3 THEN {"ok", "Err"} ELSE {"Err", "status"}) :
            InputAfterInit(p, answer)
    /\ UNCHANGED <<base, clean, trips, plans, messages, nextId, now, served>>

\* (mutant: the error of create_trip is dropped)
InputAfterCreateTripIgnoresError(p, ok) ==
    Goto(p, "input_plan", req[p], loc[p], <<Call("db::create_trip", ok)>>)

\* what input does with the result of create_trip, line 298
InputAfterCreateTrip(p, ok) ==
    IF ok
    THEN Goto(p, "input_plan", req[p], loc[p], <<Call("db::create_trip", TRUE)>>)
    ELSE Return(p, req[p], loc[p].trip_id, <<Call("db::create_trip", FALSE)>>,
                Err("db::create_trip failed"))

\* create_trip(trip.clone(), env), lines 293-298
InputCreateTrip(p) ==
    LET trip == [id |-> loc[p].trip_id, destination |-> loc[p].destination,
                 days |-> loc[p].days]
    IN  /\ pc[p] = "input_trip"
        /\ \/ /\ trips' = InsertTrip(trips, trip)
              /\ InputAfterCreateTrip(p, TRUE)
           \/ /\ InputAfterCreateTrip(p, FALSE)
              /\ UNCHANGED trips
        /\ UNCHANGED <<base, clean, actor, plans, messages, nextId, now, served>>

\* (mutant: the redirect is sent whatever the insert of the plan row gave)
InputAfterCreatePlanRowIgnoresError(p, ok) ==
    Return(p, req[p], loc[p].trip_id, <<Call("db::create_plan", ok)>>,
           Resp(302, "redirect", Some(loc[p].trip_id)))

\* what input does with the result of db::create_plan, lines 299-304: the
\* redirect to /trip/{trip_id}
InputAfterCreatePlanRow(p, ok) ==
    IF ok
    THEN Return(p, req[p], loc[p].trip_id, <<Call("db::create_plan", TRUE)>>,
                Resp(302, "redirect", Some(loc[p].trip_id)))
    ELSE Return(p, req[p], loc[p].trip_id, <<Call("db::create_plan", FALSE)>>,
                Err("db::create_plan failed"))

\* db::create_plan(trip.id, &response.0, &response.1, env), line 299
InputCreatePlanRow(p) ==
    LET generated == Unwrap(loc[p].response)
    IN  /\ pc[p] = "input_plan"
        /\ \/ \E ts \in Clock :
                /\ now' = ts
                /\ plans' = InsertPlan(plans, loc[p].trip_id,
                                       generated[1], generated[2], ts)
                /\ InputAfterCreatePlanRow(p, TRUE)
           \/ /\ InputAfterCreatePlanRow(p, FALSE)
              /\ UNCHANGED <<plans, now>>
        /\ UNCHANGED <<base, clean, actor, trips, messages, nextId, served>>

(* ----------------------------- chat flow ------------------------------ *)

\* The task q is a chat turn on trip t other than the task p.
Interleaved(p, t, q) == q /= p /\ req[q].kind = "chat" /\ loc[q].trip_id = t

\* Bookkeeping of base and clean for a step of the chat task p on trip t
\* that begins the task or appends to the log, and may end the task.  (The
\* log a task started from is kept only while nothing interleaves.)
Track(p, t, begins, appends) ==
    LET ends == pc'[p] = "idle"
    IN  /\ base' = [q \in Procs |->
                      IF q = p
                      THEN (IF ends THEN <<>>
                            ELSE IF begins THEN Log(t) ELSE base[p])
                      ELSE IF appends /\ Interleaved(p, t, q) THEN <<>>
                           ELSE base[q]]
        /\ clean' = [q \in Procs |->
                      IF q = p
                      THEN (IF ends \/ begins THEN TRUE ELSE clean[p])
                      ELSE IF appends /\ Interleaved(p, t, q) THEN FALSE
                           ELSE clean[q]]

\* The requests POST /trip/{trip_id} can get.
ChatRequest(t, m) ==
    [NoReq EXCEPT !.kind = "chat", !.message = m, !.trip_id = t]
ChatRequests ==
    {[NoReq EXCEPT !.kind = "chat", !.form = FALSE, !.trip_id = t] :
        t \in TripIds} \cup
    {ChatRequest(t, m) : t \in TripIds, m \in MessageFields}
\* a few of them: a message for each trip, and one without the field
FewChatRequests ==
    {ChatRequest(1, None)} \cup {ChatRequest(t, Some("hi")) : t \in TripIds}

\* chat, lines 197-200: the form and its message field
ChatValidate(form, message) ==
    IF ~form THEN Err("form_data failed")
    ELSE IF ~IsSome(message) THEN Resp(400, "Missing field: message", None)
    ELSE NoResult

\* (mutant: the error of the user message's insert is dropped)
ChatAfterUserMessageIgnoresError(p, r, ok) ==
    Goto(p, "chat_trip", r, [NoLoc EXCEPT !.trip_id = r.trip_id],
         <<Call("db::create_message", ok)>>)

\* what chat does with the result of create_message(.., "User", ..), line 203
ChatAfterUserMessage(p, r, ok) ==
    IF ok
    THEN Goto(p, "chat_trip", r, [NoLoc EXCEPT !.trip_id = r.trip_id],
              <<Call("db::create_message", TRUE)>>)
    ELSE Return(p, r, r.trip_id, <<Call("db::create_message", FALSE)>>,
                Err("db::create_message failed"))

\* chat up to its first external call: the form, the trip id of the path,
\* then create_message(trip_id, &message, "User", env), lines 197-203
ChatBegin(p, requests) ==
    /\ Accept(p)
    /\ \E r \in requests :
        LET v == ChatValidate(r.form, r.message)
            t == r.trip_id
        IN  IF v /= NoResult
            THEN /\ Return(p, r, t, <<>>, v)
                 /\ UNCHANGED <<base, clean, messages, now>>
            ELSE \/ /\ Len(messages) < MaxMsgs
                    /\ \E ts \in Clock :
                        /\ now' = ts
                        /\ messages' = InsertMessage(messages, t,
                                           Unwrap(r.message), "User", ts)
                    /\ ChatAfterUserMessage(p, r, TRUE)
                    /\ Track(p, t, TRUE, TRUE)
                 \/ /\ ChatAfterUserMessage(p, r, FALSE)
                    /\ Track(p, t, TRUE, FALSE)
                    /\ UNCHANGED <<messages, now>>
    /\ UNCHANGED <<actor, trips, plans, nextId>>

\* what chat does with the result of get_trip, line 204: it keeps the
\* response of the durable object
ChatAfterGetTrip(p, ok, resp) ==
    IF ok
    THEN Goto(p, "chat_check", req[p], [loc[p] EXCEPT !.trip = resp],
              <<Call("get_trip", TRUE)>>)
    ELSE Return(p, req[p], loc[p].trip_id, <<Call("get_trip", FALSE)>>,
                Err("fetch failed"))

\* get_trip(env, trip_id), lines 346-358: the durable object's answer to
\* GET /, whatever its status, or an error when the fetch fails
ChatGetTrip(p) ==
    LET t == loc[p].trip_id
    IN  /\ pc[p] = "chat_trip"
        /\ \/ ChatAfterGetTrip(p, TRUE, ReadStorage(actor[t]))
           \/ ChatAfterGetTrip(p, FALSE, NoResult)
        /\ Track(p, t, FALSE, FALSE)
        /\ UNCHANGED <<storeVars, nextId, now, served>>

\* (mutant: the test of line 205 is inverted)
ChatAfterCheckInverted(p, ok, has) ==
    IF ~ok
    THEN Return(p, req[p], loc[p].trip_id,
                <<Call("db::check_if_messages", FALSE)>>,
                Err("db::check_if_messages failed"))
    ELSE IF has
    THEN Goto(p, "chat_ai", req[p],
              [loc[p] EXCEPT !.bootstrap = TRUE, !.hist = << <<"", "", "">> >>],
              <<Call("db::check_if_messages", TRUE)>>)
    ELSE Goto(p, "chat_list", req[p], loc[p],
              <<Call("db::check_if_messages", TRUE)>>)

\* what chat does with the result of check_if_messages, lines 205-209:
\* without messages the turn bootstraps with the history [("", "", "")],
\* otherwise it goes on to list the history
ChatAfterCheck(p, ok, has) ==
    IF ~ok
    THEN Return(p, req[p], loc[p].trip_id,
                <<Call("db::check_if_messages", FALSE)>>,
                Err("db::check_if_messages failed"))
    ELSE IF ~has
    THEN Goto(p, "chat_ai", req[p],
              [loc[p] EXCEPT !.bootstrap = TRUE, !.hist = << <<"", "", "">> >>],
              <<Call("db::check_if_messages", TRUE)>>)
    ELSE Goto(p, "chat_list", req[p], loc[p],
              <<Call("db::check_if_messages", TRUE)>>)

\* check_if_messages(trip_id, env), line 205
ChatCheck(p) ==
    LET t == loc[p].trip_id
    IN  /\ pc[p] = "chat_check"
        /\ \/ ChatAfterCheck(p, TRUE, CheckIfMessages(messages, t))
           \/ ChatAfterCheck(p, FALSE, FALSE)
        /\ Track(p, t, FALSE, FALSE)
        /\ UNCHANGED <<storeVars, nextId, now, served>>

\* what chat does with the result of get_messages, line 209
ChatAfterList(p, ok, rows) ==
    IF ok
    THEN Goto(p, "chat_ai", req[p], [loc[p] EXCEPT !.hist = rows],
              <<Call("db::get_messages", TRUE)>>)
    ELSE Return(p, req[p], loc[p].trip_id, <<Call("db::get_messages", FALSE)>>,
                Err("db::get_messages failed"))

\* get_messages(trip_id, env), line 209
ChatList(p) ==
    LET t == loc[p].trip_id
    IN  /\ pc[p] = "chat_list"
        /\ \/ ChatAfterList(p, TRUE, GetMessages(messages, t))
           \/ ChatAfterList(p, FALSE, <<>>)
        /\ Track(p, t, FALSE, FALSE)
        /\ UNCHANGED <<storeVars, nextId, now, served>>

\* (mutant: a failed generation is answered with a stock reply)
ChatAfterAiFallsBack(p, ok, resp) ==
    IF loc[p].bootstrap
    THEN Return(p, req[p], loc[p].trip_id, <<Call("ai::chat", ok)>>,
                Resp(200, resp, None))
    ELSE Goto(p, "chat_save", req[p],
              [loc[p] EXCEPT !.resp = resp, !.hist = <<>>],
              <<Call("ai::chat", ok)>>)

\* (mutant: a failed generation is tried again)
ChatAfterAiRetries(p, ok, resp) ==
    IF ~ok
    THEN Goto(p, "chat_ai", req[p], loc[p], <<Call("ai::chat", FALSE)>>)
    ELSE IF loc[p].bootstrap
    THEN Return(p, req[p], loc[p].trip_id, <<Call("ai::chat", TRUE)>>,
                Resp(200, resp, None))
    ELSE Goto(p, "chat_save", req[p],
              [loc[p] EXCEPT !.resp = resp, !.hist = <<>>],
              <<Call("ai::chat", TRUE)>>)

\* (mutant: the reply is returned without being saved)
ChatAfterAiNeverSaves(p, ok, resp) ==
    IF ~ok
    THEN Return(p, req[p], loc[p].trip_id, <<Call("ai::chat", FALSE)>>,
                Err("ai::chat failed"))
    ELSE Return(p, req[p], loc[p].trip_id, <<Call("ai::chat", TRUE)>>,
                Resp(200, resp, None))

\* what chat does with the result of ai::chat, lines 206-207 and 209: the
\* bootstrap turn returns the reply at once, the other goes on to save it
ChatAfterAi(p, ok, resp) ==
    IF ~ok
    THEN Return(p, req[p], loc[p].trip_id, <<Call("ai::chat", FALSE)>>,
                Err("ai::chat failed"))
    ELSE IF loc[p].bootstrap
    THEN Return(p, req[p], loc[p].trip_id, <<Call("ai::chat", TRUE)>>,
                Resp(200, resp, None))
    ELSE Goto(p, "chat_save", req[p],
              [loc[p] EXCEPT !.resp = resp, !.hist = <<>>],
              <<Call("ai::chat", TRUE)>>)

\* ai::chat(&env, &trip.text(), history, &message): a reply, or an error
ChatAi(p) ==
    /\ pc[p] = "chat_ai"
    /\ \/ \E resp \in ReplyTexts : ChatAfterAi(p, TRUE, resp)
       \/ ChatAfterAi(p, FALSE, "")
    /\ Track(p, loc[p].trip_id, FALSE, FALSE)
    /\ UNCHANGED <<storeVars, nextId, now, served>>

\* what chat does with the result of create_message(.., "AI", ..), lines
\* 210-211: Response::ok(resp)
ChatAfterSave(p, ok) ==
    IF ok
    THEN Return(p, req[p], loc[p].trip_id, <<Call("db::create_message", TRUE)>>,
                Resp(200, loc[p].resp, None))
    ELSE Return(p, req[p], loc[p].trip_id, <<Call("db::create_message", FALSE)>>,
                Err("db::create_message failed"))

\* create_message(trip_id, &resp, "AI", env), line 210
ChatSave(p) ==
    LET t == loc[p].trip_id
    IN  /\ pc[p] = "chat_save"
        /\ \/ /\ Len(messages) < MaxMsgs
              /\ \E ts \in Clock :
                    /\ now' = ts
                    /\ messages' = InsertMessage(messages, t, loc[p].resp,
                                                 "AI", ts)
              /\ ChatAfterSave(p, TRUE)
              /\ Track(p, t, FALSE, TRUE)
           \/ /\ ChatAfterSave(p, FALSE)
              /\ Track(p, t, FALSE, FALSE)
              /\ UNCHANGED <<messages, now>>
        /\ UNCHANGED <<actor, trips, plans, nextId, served>>

(* ------------------------------- reads -------------------------------- *)

\* main, GET /chat/{trip_id}, lines 144-151: check_if_messages, and the
\* sentinel when there is no message
HistoryBegin(p) ==
    /\ Accept(p)
    /\ \E t \in TripIds :
        LET r == [NoReq EXCEPT !.kind = "history", !.trip_id = t]
            c(ok) == <<Call("db::check_if_messages", ok)>>
        IN  \/ IF CheckIfMessages(messages, t)
               THEN /\ Goto(p, "history_list", r, [NoLoc EXCEPT !.trip_id = t],
                            c(TRUE))
                    /\ base' = [base EXCEPT ![p] = Log(t)]
               ELSE /\ Return(p, r, t, c(TRUE),
                              Resp(200, "No messages yet", None))
                    /\ UNCHANGED base
            \/ /\ Return(p, r, t, c(FALSE), Err("db::check_if_messages failed"))
               /\ UNCHANGED base
    /\ UNCHANGED <<clean, storeVars, nextId, now>>

\* main, lines 147-149: get_messages and the JSON of its rows
HistoryList(p) ==
    LET t == loc[p].trip_id
        c(ok) == <<Call("db::get_messages", ok)>>
    IN  /\ pc[p] = "history_list"
        /\ \/ Return(p, req[p], t, c(TRUE),
                     Resp(200, "json", Some(GetMessages(messages, t))))
           \/ Return(p, req[p], t, c(FALSE), Err("db::get_messages failed"))
        /\ base' = [base EXCEPT ![p] = <<>>]
        /\ UNCHANGED <<clean, storeVars, nextId, now, served>>

\* main, GET /trip/{trip_id} without text/html, line 138: get_trip
GetTrip(p) ==
    /\ Accept(p)
    /\ \E t \in TripIds :
        LET r == [NoReq EXCEPT !.kind = "get_trip", !.trip_id = t]
            c(ok) == <<Call("get_trip", ok)>>
        IN  \/ Return(p, r, t, c(TRUE), ReadStorage(actor[t]))
            \/ Return(p, r, t, c(FALSE), Err("fetch failed"))
    /\ UNCHANGED <<base, clean, storeVars, nextId, now>>

(* --------------------------- specification ---------------------------- *)

Next ==
    \E p \in Procs :
        \/ InputBegin(p, FewInputRequests)
        \/ InputInit(p)
        \/ InputCreateTrip(p)
        \/ InputCreatePlanRow(p)
        \/ ChatBegin(p, FewChatRequests)
        \/ ChatGetTrip(p)
        \/ ChatCheck(p)
        \/ ChatList(p)
        \/ ChatAi(p)
        \/ ChatSave(p)
        \/ HistoryBegin(p)
        \/ HistoryList(p)
        \/ GetTrip(p)

Spec == Init /\ [][Next]_vars


\* The creation flow and the definition read alone, with every creation
\* request.
NextInput ==
    \E p \in Procs :
        \/ InputBegin(p, InputRequests)
        \/ InputInit(p)
        \/ InputCreateTrip(p)
        \/ InputCreatePlanRow(p)
        \/ GetTrip(p)

SpecInput == Init /\ [][NextInput]_vars

\* The durable objects alone, with the requests sent to them directly.
NextActor ==
    \E p \in Procs :
        \/ TripSessionInit(p)
        \/ TripSessionGet(p)

SpecActor == Init /\ [][NextActor]_vars

\* The chat turns and the history reads alone, with every chat request.
NextChat ==
    \E p \in Procs :
        \/ ChatBegin(p, ChatRequests)
        \/ ChatGetTrip(p)
        \/ ChatCheck(p)
        \/ ChatList(p)
        \/ ChatAi(p)
        \/ ChatSave(p)
        \/ HistoryBegin(p)
        \/ HistoryList(p)

SpecChat == Init /\ [][NextChat]_vars

\* The life of a trip: creations with a valid form, and chat turns with one
\* of two messages.
ValidInputRequests == {InputRequest(Some("Paris"), Some(<<"2">>))}
ValidChatRequests ==
    {ChatRequest(t, Some(m)) : t \in TripIds, m \in {"hi", "yo"}}

NextTrip ==
    \E p \in Procs :
        \/ InputBegin(p, ValidInputRequests)
        \/ InputInit(p)
        \/ InputCreateTrip(p)
        \/ InputCreatePlanRow(p)
        \/ ChatBegin(p, ValidChatRequests)
        \/ ChatGetTrip(p)
        \/ ChatCheck(p)
        \/ ChatList(p)
        \/ ChatAi(p)
        \/ ChatSave(p)

SpecTrip == Init /\ [][NextTrip]_vars

\* The external call the task p waits for returns and the handler goes on.
Resume(p) ==
    \/ InputInit(p)
    \/ InputCreateTrip(p)
    \/ InputCreatePlanRow(p)
    \/ ChatGetTrip(p)
    \/ ChatCheck(p)
    \/ ChatList(p)
    \/ ChatAi(p)
    \/ ChatSave(p)

\* The flows when every external call returns: a handler that waits at an
\* await is resumed.
NextFlows ==
    \E p \in Procs :
        \/ InputBegin(p, ValidInputRequests)
        \/ ChatBegin(p, FewChatRequests)
        \/ Resume(p)

SpecFlowsFair ==
    Init /\ [][NextFlows]_vars /\ \A p \in Procs : WF_vars(Resume(p))

(* ------------------------------ properties ---------------------------- *)

IsPrefix(a, b) == Len(a) <= Len(b) /\ SubSeq(b, 1, Len(a)) = a

InFlight(p, kind) == pc[p] /= "idle" /\ req[p].kind = kind
Answered(kind) == response /= NoResponse /\ response.req.kind = kind

CreationOrder == <<"ai::create_plan", "init", "db::create_trip", "db::create_plan">>

\* the calls cs are a start of the creation order, each one made after the
\* one before it succeeded
InCreationOrder(cs) ==
    /\ Len(cs) <= Len(CreationOrder)
    /\ \A i \in 1..Len(cs) :
        /\ cs[i].op = CreationOrder[i]
        /\ i < Len(cs) => cs[i].ok

\* C1: a creation flow calls the generation service, the actor's init, the
\* trip-row insert and the plan-row insert in this order, each only after
\* the one before it returned success: while the flow waits for a call, the
\* effects of the earlier calls are there and those of the later ones are not.
C1_CreationOrder ==
    /\ \A p \in Procs : InFlight(p, "input") =>
        LET t == loc[p].trip_id
        IN  /\ InCreationOrder(calls[p])
            /\ \A i \in 1..Len(calls[p]) : calls[p][i].ok
            /\ pc[p] = "input_init" =>
                  /\ Len(calls[p]) = 1
                  /\ actor[t] = EmptyStorage
                  /\ TripRows(t) = <<>> /\ PlanRows(t) = <<>>
            /\ pc[p] = "input_trip" =>
                  /\ Len(calls[p]) = 2
                  /\ Initialized(t)
                  /\ TripRows(t) = <<>> /\ PlanRows(t) = <<>>
            /\ pc[p] = "input_plan" =>
                  /\ Len(calls[p]) = 3
                  /\ Initialized(t)
                  /\ Len(TripRows(t)) = 1 /\ PlanRows(t) = <<>>
    /\ Answered("input") =>
        /\ InCreationOrder(response.calls)
        /\ response.result.status = 302 =>
              /\ Len(response.calls) = 4
              /\ response.calls[4].ok
              /\ Initialized(response.trip_id)
              /\ Len(TripRows(response.trip_id)) = 1
              /\ Len(PlanRows(response.trip_id)) = 1

C1_Witness ==
    /\ Answered("input")
    /\ response.result.status = 302
    /\ Len(response.calls) = 4

\* C2: for every trip identifier, a plan row implies a trip row, and a trip
\* row implies an initialized actor with the row's destination and days.
C2_LogStoreNeverAhead ==
    \A t \in TripIds :
        /\ PlanRows(t) /= <<>> => TripRows(t) /= <<>>
        /\ \A i \in 1..Len(TripRows(t)) :
            /\ Initialized(t)
            /\ actor[t].destination = Some(TripRows(t)[i].destination)
            /\ actor[t].days = Some(TripRows(t)[i].days)

C2_Witness ==
    \E t \in TripIds :
        /\ PlanRows(t) /= <<>> /\ TripRows(t) /= <<>>
        /\ Initialized(t)
        /\ \E u \in TripIds : Initialized(u) /\ TripRows(u) = <<>>

\* C3: the step in which the generation service fails for a creation flow
\* ends the flow with an error after that one call, and changes neither an
\* actor nor a table; the actor of the new identifier is untouched.
C3_GenerationFailureWritesNothing ==
    [][(/\ response' /= NoResponse
        /\ response'.req.kind = "input"
        /\ response'.calls /= <<>>
        /\ ~response'.calls[1].ok)
       => /\ response'.result.kind = "Err"
          /\ Len(response'.calls) = 1
          /\ response'.calls[1].op = "ai::create_plan"
          /\ actor' = actor /\ trips' = trips
          /\ plans' = plans /\ messages' = messages
          /\ actor'[response'.trip_id] = EmptyStorage]_vars

C3_Witness ==
    /\ Answered("input")
    /\ response.result = Err("ai::create_plan failed")
    /\ response.trip_id \in TripIds

\* C4: a creation flow whose actor init failed, or answered with a status
\* other than 200, ends with an error after that call and there is no trip
\* row and no plan row of its identifier; a flow waits for a table insert
\* only with its actor initialized.
C4_InitFailureWritesNoRows ==
    /\ (Answered("input") /\ Len(response.calls) >= 2 /\ ~response.calls[2].ok)
        => /\ response.calls[2].op = "init"
           /\ Len(response.calls) = 2
           /\ response.result.kind = "Err" \/ response.result.status = 500
           /\ TripRows(response.trip_id) = <<>>
           /\ PlanRows(response.trip_id) = <<>>
    /\ \A p \in Procs :
        (InFlight(p, "input") /\ pc[p] \in {"input_trip", "input_plan"})
            => Initialized(loc[p].trip_id)

C4_Witness ==
    /\ Answered("input")
    /\ response.result = Resp(500, "failed to initialize trip", None)
    /\ actor[response.trip_id] /= EmptyStorage

\* the text is what str::parse::<u32> reads as a number: decimal digits, at
\* least one, after an optional plus sign
NumberText(s) ==
    LET digits == IF s /= <<>> /\ s[1] = "+" THEN SubSeq(s, 2, Len(s)) ELSE s
    IN  /\ digits /= <<>>
        /\ \A i \in 1..Len(digits) : digits[i] \in DigitChars

\* the creation request has no form, no destination field, no days field,
\* or a days field that is no number
Rejected(r) ==
    \/ ~r.form
    \/ r.destination = None
    \/ r.days = None
    \/ ~NumberText(Unwrap(r.days))

\* What the validation of input does reject: a creation request without a
\* destination field, without a days field, or with a days text that is no
\* unsigned decimal number fails with an error before any call of the
\* generation service, the actor or the tables: no such request is ever in
\* flight, and its answer is an error after no call, with no trip identifier
\* drawn.
ValidationBeforeCalls ==
    /\ \A p \in Procs : InFlight(p, "input") => ~Rejected(req[p])
    /\ (Answered("input") /\ Rejected(response.req)) =>
          /\ response.calls = <<>>
          /\ response.trip_id = 0
          /\ \/ response.result.kind = "Err"
             \/ response.result.status = 400

ValidationWitness ==
    /\ Answered("input")
    /\ response.req.days = Some(<<"x">>)
    /\ response.result = Err("days must be a number")
    /\ response.calls = <<>>

\* C5 as stated: no creation request with an empty destination or with days
\* that are not positive gets as far as a call.
C5_EmptyOrZeroRejected ==
    \A p \in Procs : InFlight(p, "input") =>
        /\ loc[p].destination /= ""
        /\ loc[p].days > 0

\* C6 as stated: a chat turn whose read of the actor answered 404 (trip not
\* initialized) goes no further: it is never waiting for the message check,
\* the message list, the generation service or the insert of the reply.
C6_NotInitializedAborts ==
    \A p \in Procs :
        (InFlight(p, "chat") /\ loc[p].trip.kind = "Response"
                             /\ loc[p].trip.status = 404)
            => pc[p] \notin {"chat_check", "chat_list", "chat_ai", "chat_save"}

\* C7: the step in which the insert of the user message fails ends the chat
\* turn with an error after that one call (so without a call of the
\* generation service and without the insert of a reply) and leaves the
\* messages table as it was.
C7_UserAppendFailureStops ==
    [][(/\ response' /= NoResponse
        /\ response'.req.kind = "chat"
        /\ response'.calls /= <<>>
        /\ ~response'.calls[1].ok)
       => /\ response'.result.kind = "Err"
          /\ Len(response'.calls) = 1
          /\ response'.calls[1].op = "db::create_message"
          /\ messages' = messages]_vars

C7_Witness ==
    /\ Answered("chat")
    /\ response.result = Err("db::create_message failed")
    /\ Len(response.calls) = 1

\* the messages of a log without their timestamps
Said(log) == [i \in 1..Len(log) |-> <<log[i][1], log[i][2]>>]

\* the chat turn just answered ran to success with no other turn on its trip
\* in between
TurnDone ==
    /\ Answered("chat")
    /\ response.result.kind = "Response"
    /\ response.result.status = 200
    /\ response.clean

\* C8 as stated: after the first chat turn of a created trip, the log of the
\* trip holds no assistant message.
C8_FirstReplyNotPersisted ==
    (/\ TurnDone
     /\ response.base = <<>>
     /\ TripRows(response.trip_id) /= <<>>
     /\ PlanRows(response.trip_id) /= <<>>)
        => \A i \in 1..Len(Log(response.trip_id)) :
              Log(response.trip_id)[i][2] /= "AI"

\* C9: a chat turn that ran to success alone on its trip, from a log of n
\* messages, leaves n + 2: the old ones, then the user message, then the
\* reply it returned.
C9_TurnAppendsTwo ==
    TurnDone =>
        /\ Len(Log(response.trip_id)) = Len(response.base) + 2
        /\ IsPrefix(response.base, Log(response.trip_id))
        /\ Said(Log(response.trip_id)) =
              Said(response.base)
                \o << <<Unwrap(response.req.message), "User">>,
                      <<response.result.text, "AI">> >>

C9_Witness ==
    /\ TurnDone
    /\ Len(response.base) = 2
    /\ Len(Log(response.trip_id)) = 4

\* C10: every step leaves the log of every trip as a prefix of the log after
\* the step.
C10_AppendOnly ==
    [][\A t \in TripIds : IsPrefix(Log(t), GetMessages(messages', t))]_vars

C10_Witness ==
    \E t, u \in TripIds :
        /\ t /= u
        /\ Len(Log(t)) >= 2
        /\ Len(Log(u)) >= 1

\* C11: a step never changes the destination, days or plan of an actor that
\* is initialized, and two creation flows never hold the same identifier, so
\* no identifier gets a second init.
C11_DefinitionImmutable ==
    [][/\ \A t \in TripIds :
            (/\ IsSome(actor[t].destination)
             /\ IsSome(actor[t].days)
             /\ IsSome(actor[t].response)) => actor'[t] = actor[t]
       /\ \A p, q \in Procs :
            (/\ p /= q
             /\ pc'[p] \in {"input_init", "input_trip", "input_plan"}
             /\ pc'[q] \in {"input_init", "input_trip", "input_plan"})
                => loc'[p].trip_id /= loc'[q].trip_id]_vars

C11_Witness ==
    \E t, u \in TripIds :
        /\ t /= u
        /\ Initialized(t) /\ Initialized(u)
        /\ actor[t] /= actor[u]
        /\ \E p \in Procs : pc[p] = "input_trip" /\ loc[p].trip_id = u

\* the storage holds all three values
Full(st) == IsSome(st.destination) /\ IsSome(st.days) /\ IsSome(st.response)

\* the three values of a full storage
Stored(st) ==
    [destination |-> st.destination[1], days |-> st.days[1],
     response |-> st.response[1]]

\* C12: a successful init on an actor that held a different full definition
\* leaves exactly the triple of its body, which is what a read then returns;
\* no other actor is touched.
C12_LastInitWins ==
    [][(/\ response' /= NoResponse
        /\ response'.req.kind = "init"
        /\ response'.result.kind = "Response"
        /\ response'.result.status = 200
        /\ Full(actor[response'.trip_id])
        /\ Stored(actor[response'.trip_id]) /= response'.req.body[1])
       => /\ Full(actor'[response'.trip_id])
          /\ Stored(actor'[response'.trip_id]) = response'.req.body[1]
          /\ ReadStorage(actor'[response'.trip_id])
                = Resp(200, "json", Some(response'.req.body[1]))
          /\ \A u \in TripIds \ {response'.trip_id} : actor'[u] = actor[u]]_vars

C12_Witness ==
    /\ Answered("init")
    /\ response.result = Resp(200, "initialized", None)
    /\ Full(response.before[1])
    /\ Stored(response.before[1]) /= response.req.body[1]
    /\ Stored(actor[response.trip_id]) = response.req.body[1]

\* C13: a read that the actor answers returns 200 with the three stored
\* values when all three are stored, and otherwise 404 "trip not initialized"
\* with no value at all (so also for an actor never written); the read
\* leaves the storage as it found it.
C13_ReadAllOrNothing ==
    (Answered("get") /\ response.result.kind = "Response") =>
        LET st == actor[response.trip_id]
        IN  /\ response.before = Some(st)
            /\ IF Full(st)
               THEN /\ response.result.status = 200
                    /\ response.result.data = Some(Stored(st))
               ELSE /\ response.result.status = 404
                    /\ response.result.text = "trip not initialized"
                    /\ response.result.data = None

C13_Witness ==
    /\ Answered("get")
    /\ response.result.status = 404
    /\ IsSome(actor[response.trip_id].destination)
    /\ ~IsSome(actor[response.trip_id].response)

\* the number a days text of a successful creation stands for
ExpectedDays(text) ==
    CASE text = <<"0">> -> 0
      [] text = <<"2">> -> 2
      [] text = <<"+", "2">> -> 2

\* C14: when a creation answers with the redirect to its trip, the actor of
\* that identifier holds the destination and the days of the request and the
\* generated plan, as do the trip row and the plan row; and every definition
\* read of a created trip that the actor answers returns exactly these.
C14_CreatedTripReadsBack ==
    /\ (Answered("input") /\ response.result.status = 302) =>
        LET t == response.trip_id
            d == response.req.destination[1]
            n == ExpectedDays(response.req.days[1])
        IN  /\ response.result.data = Some(t)
            /\ Len(TripRows(t)) = 1 /\ Len(PlanRows(t)) = 1
            /\ TripRows(t)[1] = [id |-> t, destination |-> d, days |-> n]
            /\ PlanRows(t)[1].plan \in PlanTexts
            /\ actor[t] = [destination |-> Some(d), days |-> Some(n),
                           response |-> Some(PlanRows(t)[1].plan)]
    /\ \A t \in TripIds :
        (/\ Answered("get_trip")
         /\ response.trip_id = t
         /\ response.result.kind = "Response"
         /\ PlanRows(t) /= <<>>)
            => response.result =
                  Resp(200, "json",
                       Some([destination |-> TripRows(t)[1].destination,
                             days |-> TripRows(t)[1].days,
                             response |-> PlanRows(t)[1].plan]))

C14_Witness ==
    /\ Answered("get_trip")
    /\ PlanRows(response.trip_id) /= <<>>
    /\ response.result.status = 200
    /\ response.result.data[1].destination = "Paris"
    /\ response.result.data[1].days = 2
    /\ response.result.data[1].response = "planB"

\* C15 as stated: with the requests of one actor served one at a time, the
\* definition an actor holds is the complete triple of one init call, never
\* fields of two, and a read that returns a definition returns such a triple.
C15_NoMixedDefinition ==
    /\ \A t \in TripIds : Full(actor[t]) => Stored(actor[t]) \in TripInits
    /\ (Answered("get") /\ response.result.kind = "Response"
                        /\ response.result.status = 200)
            => response.result.data[1] \in TripInits

\* C16: nothing keeps two chat turns on one trip apart.  A turn that ran to
\* success while another turn on its trip appended to the log leaves a log
\* that ends with its reply and holds its user message at least two places
\* before: what lies between is the other turn's.  (That such a turn exists
\* is the witness.)
C16_TurnsInterleave ==
    (/\ Answered("chat")
     /\ response.result.kind = "Response"
     /\ response.result.status = 200
     /\ ~response.clean)
        => LET log == Said(Log(response.trip_id))
           IN  /\ Len(log) >= 3
               /\ log[Len(log)] = <<response.result.text, "AI">>
               /\ \E i \in 1..(Len(log) - 2) :
                     log[i] = <<response.req.message[1], "User">>

C16_Witness ==
    /\ Answered("chat")
    /\ response.result.status = 200
    /\ ~response.clean
    /\ response.req.message = Some("hi")
    /\ Said(Log(response.trip_id)) =
          << <<"hi", "User">>, <<"yo", "User">>, <<"reply", "AI">> >>

\* C17: the step in which the insert of the trip row or of the plan row
\* fails ends the creation with an error and changes neither an actor nor a
\* table: after a failed trip insert the actor is initialized and has no
\* trip row and no plan row, after a failed plan insert the actor is
\* initialized and its trip row is there, with no plan row.
C17_NoRollback ==
    [][(/\ response' /= NoResponse
        /\ response'.req.kind = "input"
        /\ Len(response'.calls) >= 3
        /\ ~response'.calls[Len(response'.calls)].ok)
       => LET t == response'.trip_id
              d == response'.req.destination[1]
              tripRows == SelectSeq(trips', LAMBDA r : r.id = t)
              planRows == RowsOf(plans', t)
          IN  /\ response'.result.kind = "Err"
              /\ actor' = actor /\ trips' = trips
              /\ plans' = plans /\ messages' = messages
              /\ Full(actor'[t])
              /\ Stored(actor'[t]).destination = d
              /\ planRows = <<>>
              /\ IF Len(response'.calls) = 3
                 THEN /\ response'.calls[3].op = "db::create_trip"
                      /\ tripRows = <<>>
                 ELSE /\ response'.calls[4].op = "db::create_plan"
                      /\ Len(tripRows) = 1
                      /\ tripRows[1].destination = d]_vars

C17_Witness ==
    /\ Answered("input")
    /\ response.result = Err("db::create_plan failed")
    /\ Initialized(response.trip_id)
    /\ Len(TripRows(response.trip_id)) = 1
    /\ PlanRows(response.trip_id) = <<>>

\* C18: a history read that is answered returns either the sentinel "No
\* messages yet", and then the trip has no message and the list query was
\* not made, or the messages of the trip, and then these are the whole log,
\* they are not empty, and they begin with the log the check saw.
C18_HistoryOrSentinel ==
    (Answered("history") /\ response.result.kind = "Response") =>
        LET log == Log(response.trip_id)
        IN  /\ response.result.status = 200
            /\ IF response.result.text = "No messages yet"
               THEN /\ log = <<>>
                    /\ response.result.data = None
                    /\ Len(response.calls) = 1
               ELSE /\ response.result.data = Some(log)
                    /\ log /= <<>>
                    /\ response.base /= <<>>
                    /\ IsPrefix(response.base, log)
                    /\ Len(response.calls) = 2

C18_Witness ==
    /\ Answered("history")
    /\ response.result.text = "json"
    /\ Len(response.result.data[1]) > Len(response.base)

\* the messages appended for trip t, in the order of their inserts
InsertionOrder(rows, t) ==
    LET F[i \in 0..Len(rows)] ==
            IF i = 0 THEN <<>>
            ELSE IF rows[i].trip_id = t
                 THEN Append(F[i - 1], <<rows[i].message, rows[i].messager_role,
                                         rows[i].created_at>>)
                 ELSE F[i - 1]
    IN  F[Len(rows)]

C20_EmptyMessageRejected ==
    /\ \A p \in Procs : InFlight(p, "chat") => req[p].message /= Some("")
    /\ (Answered("chat") /\ response.req.message = Some(""))
            => /\ response.calls = <<>>
               /\ \/ response.result.kind = "Err"
                  \/ response.result.status >= 400

\* C21: when a chat turn with message m2 has run to success alone on a
\* created trip whose log was the message m1 of a user and the reply R1 to
\* it, the log of the trip is m1, R1, m2 and the reply R2 just returned, in
\* this order: the user messages in the order of their turns, each reply
\* directly after the message it answers.
C21_TwoTurnsInOrder ==
    (/\ TurnDone
     /\ PlanRows(response.trip_id) /= <<>>
     /\ Initialized(response.trip_id)
     /\ Len(response.base) = 2
     /\ response.base[1][2] = "User"
     /\ response.base[2][2] = "AI")
        => LET log == Log(response.trip_id)
           IN  /\ Len(log) = 4
               /\ log[1] = response.base[1]
               /\ log[2] = response.base[2]
               /\ Said(log)[3] = <<response.req.message[1], "User">>
               /\ Said(log)[4] = <<response.result.text, "AI">>
               /\ \A i \in 1..Len(log) :
                     log[i][2] = "AI" => (i > 1 /\ log[i - 1][2] = "User")

C21_Witness ==
    /\ TurnDone
    /\ PlanRows(response.trip_id) /= <<>>
    /\ Initialized(response.trip_id)
    /\ response.req.message = Some("yo")
    /\ Said(response.base) = << <<"hi", "User">>, <<"reply", "AI">> >>
    /\ Said(Log(response.trip_id)) =
          << <<"hi", "User">>, <<"reply", "AI">>,
             <<"yo", "User">>, <<"reply", "AI">> >>

\* the number of calls of op among the calls cs
Times(cs, op) == Cardinality({i \in 1..Len(cs) : cs[i].op = op})

\* no call of a creation is made twice, a chat turn calls the generation
\* service at most once and inserts at most its two messages
NoRetry(kind, cs) ==
    /\ kind = "input" =>
        /\ \A i \in 1..Len(cs) : Times(cs, cs[i].op) = 1
        /\ \A i \in 1..Len(cs) : cs[i].op \in
              {"ai::create_plan", "init", "db::create_trip", "db::create_plan"}
    /\ kind = "chat" =>
        /\ Times(cs, "ai::chat") <= 1
        /\ Times(cs, "db::create_message") <= 2
        /\ Len(cs) <= 6

\* C22: no creation flow and no chat flow makes a call a second time, and
\* when every external call returns, every flow that was begun comes to its
\* end, a response or an error.
C22_NoRetryAndTermination ==
    /\ [](/\ \A p \in Procs : NoRetry(req[p].kind, calls[p])
          /\ NoRetry(response.req.kind, response.calls))
    /\ \A p \in Procs : (pc[p] /= "idle") ~> (pc[p] = "idle")

C22_Witness ==
    /\ Answered("chat")
    /\ response.result.status = 200
    /\ Len(response.calls) = 6
    /\ \E p \in Procs : pc[p] = "input_plan" /\ Len(calls[p]) = 3

\* C23: while a chat turn is in flight its trip has a message row, so the
\* check of line 205 finds one; no turn takes the branch without history;
\* and a turn that returns a reply has made all six calls, the last one the
\* insert of that reply, which is in the log.
C23_BootstrapNeverTaken ==
    /\ \A p \in Procs : InFlight(p, "chat") =>
        /\ \E i \in 1..Len(messages) :
              /\ messages[i].trip_id = loc[p].trip_id
              /\ messages[i].messager_role = "User"
        /\ ~loc[p].bootstrap
        /\ loc[p].hist /= << <<"", "", "">> >>
    /\ (/\ Answered("chat")
        /\ response.result.kind = "Response"
        /\ response.result.status = 200)
        => /\ Len(response.calls) = 6
           /\ response.calls[3] = Call("db::check_if_messages", TRUE)
           /\ response.calls[4] = Call("db::get_messages", TRUE)
           /\ response.calls[6] = Call("db::create_message", TRUE)
           /\ \E i \in 1..Len(messages) :
                 /\ messages[i].trip_id = response.trip_id
                 /\ messages[i].messager_role = "AI"
                 /\ messages[i].message = response.result.text

C23_Witness ==
    /\ Answered("chat")
    /\ response.result.status = 200
    /\ response.base = <<>>
    /\ response.clean
    /\ Len(Log(response.trip_id)) = 2
    /\ \E p \in Procs : pc[p] = "chat_check"

\* C24: a chat turn whose call of the generation service failed ends with
\* that call, in an error that carries no reply; the step leaves the
\* messages table as it was, with the user message of the turn in the log
\* and one call of create_message made by the turn.
C24_ReplyFailureKeepsUserMessage ==
    [][(/\ response' /= NoResponse
        /\ response'.req.kind = "chat"
        /\ \E i \in 1..Len(response'.calls) :
              response'.calls[i] = Call("ai::chat", FALSE))
       => /\ Len(response'.calls) = 5
          /\ response'.calls[5] = Call("ai::chat", FALSE)
          /\ response'.calls[1] = Call("db::create_message", TRUE)
          /\ Times(response'.calls, "db::create_message") = 1
          /\ response'.result = Err("ai::chat failed")
          /\ messages' = messages
          /\ \E i \in 1..Len(messages') :
                /\ messages'[i].trip_id = response'.trip_id
                /\ messages'[i].messager_role = "User"
                /\ messages'[i].message = response'.req.message[1]
          /\ response'.clean =>
                Said(GetMessages(messages', response'.trip_id))
                    = Said(response'.base)
                        \o << <<response'.req.message[1], "User">> >>]_vars

C24_Witness ==
    /\ Answered("chat")
    /\ response.result = Err("ai::chat failed")
    /\ response.clean
    /\ response.req.message = Some("yo")
    /\ Said(Log(response.trip_id)) =
          << <<"hi", "User">>, <<"reply", "AI">>, <<"yo", "User">> >>

\* C25 as stated: an init that ends in an error leaves the storage of its
\* actor as it found it, and the storage of an actor holds none of the three
\* values or all three.
C25_InitAllOrNothing ==
    /\ (Answered("init") /\ response.result.kind = "Err")
            => response.before = Some(actor[response.trip_id])
    /\ \A t \in TripIds : actor[t] = EmptyStorage \/ Full(actor[t])

\* C26: an answer of a creation is the redirect, or carries a trip
\* identifier, only when all four calls of the flow succeeded and, in the
\* state in which it is returned, the actor of that identifier holds all
\* three values and the tables hold its trip row and its plan row; every
\* other answer of a creation is an error without an identifier.
C26_SuccessOnlyWhenComplete ==
    Answered("input") =>
        IF response.result.kind = "Response" /\ response.result.status = 302
        THEN LET t == response.trip_id
             IN  /\ t \in TripIds
                 /\ response.result.data = Some(t)
                 /\ \A i \in 1..4 : response.calls[i].ok
                 /\ Full(actor[t])
                 /\ \E i \in 1..Len(trips) : trips[i].id = t
                 /\ \E i \in 1..Len(plans) : plans[i].trip_id = t
        ELSE /\ response.result.data = None
             /\ \/ response.result.kind = "Err"
                \/ response.result.status \in {400, 500}

C26_Witness ==
    /\ Answered("input")
    /\ response.result = Resp(302, "redirect", Some(2))
    /\ Full(actor[2])
    /\ ~Full(actor[1])
    /\ TripRows(1) = <<>>

\* the messages table holds the message m of a user for trip t
HasUserMessage(t, m) ==
    \E i \in 1..Len(messages) :
        /\ messages[i].trip_id = t
        /\ messages[i].messager_role = "User"
        /\ messages[i].message = m

\* C27: a chat turn reads the actor only as its second call, after the
\* insert of its user message: while the turn waits for the read, and from
\* then on, the row of its user message is in the table, whatever the actor
\* of its identifier holds and whether or not the identifier has a trip row.
C27_UserMessageBeforeActorRead ==
    /\ \A p \in Procs : InFlight(p, "chat") =>
        /\ calls[p][1] = Call("db::create_message", TRUE)
        /\ HasUserMessage(loc[p].trip_id, req[p].message[1])
        /\ pc[p] = "chat_trip" =>
              /\ Len(calls[p]) = 1
              /\ loc[p].trip = NoResult
        /\ \A i \in 1..Len(calls[p]) : calls[p][i].op = "get_trip" => i = 2
    /\ (/\ Answered("chat")
        /\ response.calls /= <<>>
        /\ response.calls[1].ok)
        => /\ HasUserMessage(response.trip_id, response.req.message[1])
           /\ \A i \in 1..Len(response.calls) :
                 response.calls[i].op = "get_trip" => i = 2

C27_Witness ==
    \E p \in Procs :
        /\ pc[p] = "chat_check"
        /\ loc[p].trip.status = 404
        /\ actor[loc[p].trip_id] = EmptyStorage
        /\ TripRows(loc[p].trip_id) = <<>>
        /\ Said(Log(loc[p].trip_id)) = << <<"hi", "User">> >>

\* the places of the user message m in a list of (message, role, ..) tuples
UserPlaces(list, m) ==
    {i \in 1..Len(list) : list[i][1] = m /\ list[i][2] = "User"}

\* C28: the history a chat turn hands to the generation service was read
\* after the turn's user message was appended and contains it, and it is a
\* prefix of the log as it is now; the reply of a turn that succeeded is the
\* last entry of the log, at a later place than the turn's user message.
\* Both hold when other turns on the same trip run in between.
C28_HistoryHasOwnMessage ==
    /\ \A p \in Procs :
        (InFlight(p, "chat") /\ pc[p] = "chat_ai" /\ ~loc[p].bootstrap) =>
            /\ UserPlaces(loc[p].hist, req[p].message[1]) /= {}
            /\ IsPrefix(loc[p].hist, Log(loc[p].trip_id))
    /\ (/\ Answered("chat")
        /\ response.result.kind = "Response"
        /\ response.result.status = 200)
        => LET log == Log(response.trip_id)
           IN  /\ log /= <<>>
               /\ log[Len(log)][1] = response.result.text
               /\ log[Len(log)][2] = "AI"
               /\ \E i \in UserPlaces(log, response.req.message[1]) :
                     i < Len(log)

C28_Witness ==
    \E p, q \in Procs :
        /\ p /= q
        /\ pc[p] = "chat_ai" /\ pc[q] = "chat_ai"
        /\ loc[p].trip_id = loc[q].trip_id
        /\ req[p].message = Some("hi")
        /\ req[q].message = Some("yo")
        /\ Said(loc[p].hist) = << <<"yo", "User">>, <<"hi", "User">> >>
        /\ Said(loc[q].hist) = << <<"yo", "User">> >>

\* The task that takes a step, the kind of its request and the trip
\* identifier it works on.  (A request answered in the step that accepts it
\* leaves every pc as it was; its response tells.)
Stepped == {p \in Procs : pc'[p] /= pc[p]}
StepKind ==
    IF Stepped = {} THEN response'.req.kind
    ELSE LET p == CHOOSE q \in Stepped : TRUE
         IN  IF pc[p] = "idle" THEN req'[p].kind ELSE req[p].kind
StepTrip ==
    IF Stepped = {} THEN response'.trip_id
    ELSE LET p == CHOOSE q \in Stepped : TRUE
         IN  IF pc[p] = "idle" THEN loc'[p].trip_id ELSE loc[p].trip_id

\* C29: a step of a chat turn or of a history read on trip T changes no
\* actor, no trip row, no plan row and no message of another trip; a step of
\* a creation changes no message, and no actor, trip row or plan row of an
\* identifier other than its own.
C29_Frame ==
    [][/\ StepKind \in {"chat", "history"} =>
            /\ actor' = actor
            /\ trips' = trips
            /\ plans' = plans
            /\ \A t \in TripIds \ {StepTrip} :
                  GetMessages(messages', t) = GetMessages(messages, t)
       /\ StepKind = "input" =>
            /\ messages' = messages
            /\ \A t \in TripIds \ {StepTrip} :
                  /\ actor'[t] = actor[t]
                  /\ SelectSeq(trips', LAMBDA r : r.id = t) = TripRows(t)
                  /\ RowsOf(plans', t) = PlanRows(t)]_vars

C29_Witness ==
    /\ Answered("chat")
    /\ response.trip_id = 2
    /\ response.result.kind = "Response"
    /\ response.result.status = 200
    /\ Said(Log(2)) = << <<"hi", "User">>, <<"reply", "AI">> >>
    /\ Said(Log(1)) = << <<"hi", "User">> >>
    /\ Full(actor[1]) /\ TripRows(1) /= <<>> /\ PlanRows(1) /= <<>>
    /\ actor[2] = EmptyStorage

=============================================================================
